---- MODULE Spec2Model ----
(***************************************************************************)
(* A model of the kvs log-structured key-value store (src/src/lib.rs).     *)
(*                                                                         *)
(* The directory is a partial map from file names to byte sequences, the   *)
(* engine is the KvStore struct (index, reader, writer, stale_size).  The  *)
(* log is modelled at the byte level: records are serialized to the JSON   *)
(* text serde_json writes and parsed back by a streaming parser, so that   *)
(* offsets, lengths and leftover bytes are what they are in the file.      *)
(***************************************************************************)
EXTENDS Integers, Sequences, FiniteSets, TLC

\* ---------------------------------------------------------------- bounds

\* Length of the values the callers write.
ValLen == 20

\* Length of the long values the callers write.
LongLen == 72

\* Number of log-writing calls (set, successful remove) explored.
MaxOps == 5

\* Number of times a compaction is cut short: the process is killed inside
\* it, or one of its steps returns an I/O error.
MaxCrashes == 1

\* Number of complete records before the damaged tail of a log given to open.
MaxRecords == 2

\* ------------------------------------------------------- program constants

THRESHOLD == 100

LOG_FILE_NAME == "kvs.log"

COMPACT_FILE_NAME == "kvs.compact.log"

\* ---------------------------------------------------------------- inputs

Rep(c, n) == [i \in 1..n |-> c]

\* F applied to x, with x computed once (a LET definition is computed again at
\* each of its uses).
Bind(x, F(_)) == CHOOSE y \in {F(v) : v \in {x}} : TRUE

Keys == {<<"a">>, <<"b">>}

Values == {Rep("1", ValLen), Rep("2", LongLen)}

\* ------------------------------------------------------------ record codec

\* The Commands enum: Set { key, value }, Get { key }, Rm { key }.
SetCmd(k, v) == [type |-> "Set", key |-> k, value |-> v]

RmCmd(k) == [type |-> "Rm", key |-> k, value |-> <<>>]

GetCmd(k) == [type |-> "Get", key |-> k, value |-> <<>>]

Commands ==
    {SetCmd(k, v) : k \in Keys, v \in Values} \cup {RmCmd(k) : k \in Keys}
        \cup {GetCmd(k) : k \in Keys}

Quote == "\""

Backslash == "\\"

LitSet == <<"{", Quote, "S", "e", "t", Quote, ":", "{", Quote, "k", "e", "y", Quote, ":">>

LitRm == <<"{", Quote, "R", "m", Quote, ":", "{", Quote, "k", "e", "y", Quote, ":">>

LitGet == <<"{", Quote, "G", "e", "t", Quote, ":", "{", Quote, "k", "e", "y", Quote, ":">>

LitValue == <<",", Quote, "v", "a", "l", "u", "e", Quote, ":">>

LitClose == <<"}", "}">>

Whitespace == {" ", "\n", "\t", "\r"}

\* serde_json's string escaping, for the two characters that can occur here.
RECURSIVE EscapeEach(_)
EscapeEach(s) ==
    IF s = <<>> THEN <<>>
    ELSE (IF Head(s) \in {Quote, Backslash} THEN <<Backslash, Head(s)>> ELSE <<Head(s)>>)
            \o EscapeEach(Tail(s))

Escape(s) ==
    IF \A i \in 1..Len(s) : s[i] \notin {Quote, Backslash} THEN s ELSE EscapeEach(s)

JsonString(s) == <<Quote>> \o Escape(s) \o <<Quote>>

\* serde_json::to_writer(&mut writer, &cmd): the externally tagged enum, compact.
Serialize(cmd) ==
    CASE cmd.type = "Set" ->
            LitSet \o JsonString(cmd.key) \o LitValue \o JsonString(cmd.value) \o LitClose
      [] cmd.type = "Rm" -> LitRm \o JsonString(cmd.key) \o LitClose
      [] OTHER -> LitGet \o JsonString(cmd.key) \o LitClose

ParseFail == [ok |-> FALSE, val |-> <<>>, end |-> 0]

\* Whether the bytes of b at offset i (0-based) start with lit.
HasPrefix(b, i, lit) ==
    /\ i + Len(lit) <= Len(b)
    /\ SubSeq(b, i + 1, i + Len(lit)) = lit

\* The number of backslashes that end just before index j, none before from.
BackslashRun(b, from, j) ==
    CHOOSE n \in 0..(j - from) :
        /\ \A i \in 1..n : b[j - i] = Backslash
        /\ n = j - from \/ b[j - n - 1] # Backslash

\* Whether index j holds a quote that ends a string whose body starts at from.
ClosingQuote(b, from, j) == b[j] = Quote /\ BackslashRun(b, from, j) % 2 = 0

RECURSIVE UnescapeEach(_)
UnescapeEach(s) ==
    IF s = <<>> THEN <<>>
    ELSE IF Head(s) = Backslash /\ Len(s) >= 2
        THEN <<s[2]>> \o UnescapeEach(Tail(Tail(s)))
        ELSE <<Head(s)>> \o UnescapeEach(Tail(s))

Unescape(s) == IF \A i \in 1..Len(s) : s[i] # Backslash THEN s ELSE UnescapeEach(s)

\* The escapes the parser accepts in a string body: \" and \\ .
ValidEscapes(s) ==
    \A i \in 1..Len(s) :
        (s[i] = Backslash /\ BackslashRun(s, 1, i) % 2 = 0)
            => (i < Len(s) /\ s[i + 1] \in {Quote, Backslash})

\* The body of a JSON string from index from (1-based) up to the first closing
\* quote; end is the offset just past that quote.
ScanString(b, from) ==
    IF \E j \in from..Len(b) : ClosingQuote(b, from, j) THEN
        Bind(CHOOSE j \in from..Len(b) :
                /\ ClosingQuote(b, from, j)
                /\ \A k \in from..(j - 1) : ~ClosingQuote(b, from, k),
             LAMBDA j :
                Bind(SubSeq(b, from, j - 1), LAMBDA body :
                    IF ValidEscapes(body)
                        THEN [ok |-> TRUE, val |-> Unescape(body), end |-> j]
                        ELSE ParseFail))
    ELSE ParseFail

\* A JSON string at offset i; end is the offset just past its closing quote.
ParseString(b, i) ==
    IF i < Len(b) /\ b[i + 1] = Quote THEN ScanString(b, i + 2) ELSE ParseFail

RECURSIVE SkipWs(_, _)
SkipWs(b, i) ==
    IF i < Len(b) /\ b[i + 1] \in Whitespace THEN SkipWs(b, i + 1) ELSE i

CmdFail == [ok |-> FALSE, cmd |-> GetCmd(<<>>), end |-> 0]

\* One record whose first byte is at offset i: the Deserialize impl of Commands
\* on the encoding Serialize writes.  end is the offset just past the record.
ParseCommandAt(b, i) ==
    IF HasPrefix(b, i, LitSet) THEN
        Bind(ParseString(b, i + Len(LitSet)), LAMBDA k :
            IF k.ok /\ HasPrefix(b, k.end, LitValue) THEN
                Bind(ParseString(b, k.end + Len(LitValue)), LAMBDA v :
                    IF v.ok /\ HasPrefix(b, v.end, LitClose)
                        THEN [ok |-> TRUE, cmd |-> SetCmd(k.val, v.val),
                              end |-> v.end + Len(LitClose)]
                        ELSE CmdFail)
            ELSE CmdFail)
    ELSE IF HasPrefix(b, i, LitRm) THEN
        Bind(ParseString(b, i + Len(LitRm)), LAMBDA k :
            IF k.ok /\ HasPrefix(b, k.end, LitClose)
                THEN [ok |-> TRUE, cmd |-> RmCmd(k.val), end |-> k.end + Len(LitClose)]
                ELSE CmdFail)
    ELSE IF HasPrefix(b, i, LitGet) THEN
        Bind(ParseString(b, i + Len(LitGet)), LAMBDA k :
            IF k.ok /\ HasPrefix(b, k.end, LitClose)
                THEN [ok |-> TRUE, cmd |-> GetCmd(k.val), end |-> k.end + Len(LitClose)]
                ELSE CmdFail)
    ELSE CmdFail

\* serde_json::from_reader on a whole byte range: one record, then only
\* whitespace up to the end of the range.
FromReader(b) ==
    Bind(ParseCommandAt(b, SkipWs(b, 0)), LAMBDA r :
        IF r.ok /\ SkipWs(b, r.end) = Len(b) THEN r ELSE CmdFail)

\* ------------------------------------------------------------- file bytes

Min(x, y) == IF x < y THEN x ELSE y

Max(x, y) == IF x > y THEN x ELSE y

\* A byte of a hole left by writing past the end of a file.
Nul == "NUL"

\* Read::take(len) after seek(Start(pos)): at most len bytes, up to end of file.
ReadAt(b, pos, len) ==
    IF pos >= Len(b) \/ len = 0 THEN <<>> ELSE SubSeq(b, pos + 1, Min(pos + len, Len(b)))

\* A write of bytes at file offset pos: overwrites in place, extends at the end,
\* never truncates.
WriteAt(b, pos, bytes) ==
    IF pos >= Len(b) THEN b \o Rep(Nul, pos - Len(b)) \o bytes
    ELSE SubSeq(b, 1, pos) \o bytes
            \o (IF pos + Len(bytes) < Len(b) THEN SubSeq(b, pos + Len(bytes) + 1, Len(b)) ELSE <<>>)

\* --------------------------------------------------------- directory, index

NoFiles == [f \in {} |-> <<>>]

Exists(d, name) == name \in DOMAIN d

\* std::fs::remove_file
RemoveFile(d, name) == [f \in DOMAIN d \ {name} |-> d[f]]

PutFile(d, name, bytes) == [f \in DOMAIN d \cup {name} |-> IF f = name THEN bytes ELSE d[f]]

\* std::fs::rename(from, to): to is replaced, from disappears.
Rename(d, from, to) == RemoveFile(PutFile(d, to, d[from]), from)

\* open_file: OpenOptions read + write + create, neither truncate nor append:
\* a missing file is created empty, an existing one keeps its bytes.
open_file(d, name) == IF Exists(d, name) THEN d ELSE PutFile(d, name, <<>>)

get_log_file(d) == open_file(d, LOG_FILE_NAME)

\* CommandPos { pos, len }
CommandPos(pos, len) == [pos |-> pos, len |-> len]

EmptyIndex == [k \in {} |-> CommandPos(0, 0)]

\* HashMap::insert and HashMap::remove; the caller reads the old entry itself.
IndexInsert(idx, k, e) == [x \in DOMAIN idx \cup {k} |-> IF x = k THEN e ELSE idx[x]]

IndexRemove(idx, k) == [x \in DOMAIN idx \ {k} |-> idx[x]]

\* What insert / remove return as Some(old_cmd), as the length to account.
OldLen(idx, k) == IF k \in DOMAIN idx THEN idx[k].len ELSE 0

\* ------------------------------------------------------ positioned buffers

\* BufReaderWithPos / BufWriterWithPos ::new: pos = inner.seek(Current(0)) of
\* a freshly opened handle.  cursor is the handle's own file offset, buf the
\* bytes the BufWriter holds that have not reached the file.
ReaderNew == [pos |-> 0]

WriterNew == [pos |-> 0, cursor |-> 0, buf |-> <<>>]

ReaderSeekStart(r, pos) == [pos |-> pos]

ReaderRead(r, n) == [pos |-> r.pos + n]

\* A writer left at the start of the file instead of its end.
WriterSeekEnd_AtStart(w, b) == [pos |-> 0, cursor |-> 0, buf |-> w.buf]

\* seek(SeekFrom::End(0)) on the handle of a file whose bytes are b.
WriterSeekEnd(w, b) == [pos |-> Len(b), cursor |-> Len(b), buf |-> w.buf]

\* Write::write: the bytes go to the buffer, pos += their number.
WriterWrite(w, bytes) ==
    [pos |-> w.pos + Len(bytes), cursor |-> w.cursor, buf |-> w.buf \o bytes]

\* A flush that leaves the buffered bytes where they are.
Flush_Nothing(file, w) == [file |-> file, writer |-> w]

\* Write::flush: the buffered bytes reach the file at the handle's offset.
Flush(file, w) ==
    [file |-> IF w.buf = <<>> THEN file ELSE WriteAt(file, w.cursor, w.buf),
     writer |-> [pos |-> w.pos, cursor |-> w.cursor + Len(w.buf), buf |-> <<>>]]

\* ----------------------------------------------------------------- results

Some(v) == [tag |-> "Some", val |-> v]

None == [tag |-> "None", val |-> <<>>]

Err == [tag |-> "Err", val |-> <<>>]

Ok == [tag |-> "Ok", val |-> <<>>]

KeyNotFound == [tag |-> "KeyNotFound", val |-> <<>>]

\* -------------------------------------------------------------- the engine

\* struct KvStore, without dir (the one directory of the model).
KvStore(index, reader, writer, stale) ==
    [index |-> index, reader |-> reader, writer |-> writer, stale_size |-> stale]

NoStore == KvStore(EmptyIndex, ReaderNew, WriterNew, 0)

\* The loop of open over the records of the log bytes b, from offset pos:
\* a Set inserts (pos, new_pos - pos), an Rm removes, both add the old
\* entry's len to stale_size; a record that does not parse ends it in error.
ReplayDone(ok, index, stale) == [ok |-> ok, index |-> index, stale_size |-> stale]

\* A replay that stops at a record that does not parse and keeps what it has.
RECURSIVE Replay_KeepsPrefix(_, _, _, _)
Replay_KeepsPrefix(b, pos, index, stale) ==
    IF SkipWs(b, pos) >= Len(b) THEN ReplayDone(TRUE, index, stale)
    ELSE Bind(ParseCommandAt(b, SkipWs(b, pos)), LAMBDA r :
        IF ~r.ok THEN ReplayDone(TRUE, index, stale)
        ELSE IF r.cmd.type = "Set" THEN
            Bind(<<IndexInsert(index, r.cmd.key, CommandPos(pos, r.end - pos)),
                   stale + OldLen(index, r.cmd.key)>>,
                 LAMBDA n : Replay_KeepsPrefix(b, r.end, n[1], n[2]))
        ELSE IF r.cmd.type = "Rm" THEN
            Bind(<<IndexRemove(index, r.cmd.key), stale + OldLen(index, r.cmd.key)>>,
                 LAMBDA n : Replay_KeepsPrefix(b, r.end, n[1], n[2]))
        ELSE Replay_KeepsPrefix(b, r.end, index, stale))

RECURSIVE Replay(_, _, _, _)
Replay(b, pos, index, stale) ==
    IF SkipWs(b, pos) >= Len(b) THEN ReplayDone(TRUE, index, stale)
    ELSE Bind(ParseCommandAt(b, SkipWs(b, pos)), LAMBDA r :
        IF ~r.ok THEN ReplayDone(FALSE, EmptyIndex, 0)
        ELSE IF r.cmd.type = "Set" THEN
            Bind(<<IndexInsert(index, r.cmd.key, CommandPos(pos, r.end - pos)),
                   stale + OldLen(index, r.cmd.key)>>,
                 LAMBDA n : Replay(b, r.end, n[1], n[2]))
        ELSE IF r.cmd.type = "Rm" THEN
            Bind(<<IndexRemove(index, r.cmd.key), stale + OldLen(index, r.cmd.key)>>,
                 LAMBDA n : Replay(b, r.end, n[1], n[2]))
        ELSE Replay(b, r.end, index, stale))

\* KvStore::open on directory d: [ok, disk, kv].
open(d) ==
    Bind(get_log_file(d), LAMBDA d1 :
    Bind(d1[LOG_FILE_NAME], LAMBDA b :
    Bind(Replay(b, 0, EmptyIndex, 0), LAMBDA r :
        [ok |-> r.ok,
         disk |-> d1,
         kv |-> IF r.ok
                  THEN KvStore(r.index, ReaderRead(ReaderSeekStart(ReaderNew, 0), Len(b)),
                               WriterSeekEnd(WriterNew, b), r.stale_size)
                  ELSE NoStore])))

\* A get that reads from wherever the reader is, without the seek.
get_NoSeek(d, kv, key) ==
    IF key \in DOMAIN kv.index THEN
        Bind(kv.index[key], LAMBDA e :
        Bind(ReadAt(d[LOG_FILE_NAME], kv.reader.pos, e.len), LAMBDA bytes :
        Bind(FromReader(bytes), LAMBDA r :
            [res |-> IF ~r.ok THEN Err
                     ELSE IF r.cmd.type = "Set" THEN Some(r.cmd.value)
                     ELSE None,
             reader |-> ReaderRead(kv.reader, Len(bytes))])))
    ELSE [res |-> None, reader |-> kv.reader]

\* KvStore::get: [res, reader].
get(d, kv, key) ==
    IF key \in DOMAIN kv.index THEN
        Bind(kv.index[key], LAMBDA e :
        Bind(ReadAt(d[LOG_FILE_NAME], e.pos, e.len), LAMBDA bytes :
        Bind(FromReader(bytes), LAMBDA r :
            [res |-> IF ~r.ok THEN Err
                     ELSE IF r.cmd.type = "Set" THEN Some(r.cmd.value)
                     ELSE None,
             reader |-> ReaderRead(ReaderSeekStart(kv.reader, e.pos), Len(bytes))])))
    ELSE [res |-> None, reader |-> kv.reader]

\* The orders in which HashMap::values_mut may visit the entries.
Orders(S) ==
    {o \in [1..Cardinality(S) -> S] : \A i, j \in 1..Cardinality(S) : o[i] = o[j] => i = j}

\* The loop of compact over the first n entries of order: each is read from
\* the log through the reader and written at the compact writer's position,
\* and its index entry is replaced by where it went.
RECURSIVE CopyEntries(_, _, _, _, _, _)
CopyEntries(log, order, n, file, w, index) ==
    IF n = 0 THEN [file |-> file, writer |-> w, index |-> index]
    ELSE
        Bind(CopyEntries(log, order, n - 1, file, w, index), LAMBDA c :
        Bind(ReadAt(log, c.index[order[n]].pos, c.index[order[n]].len), LAMBDA bytes :
        Bind(Flush(c.file, WriterWrite(c.writer, bytes)), LAMBDA f :
            [file |-> f.file,
             writer |-> f.writer,
             index |-> [c.index EXCEPT ![order[n]] = CommandPos(c.writer.pos, Len(bytes))]])))

\* The compact file once it is opened and the first n entries are copied.
CompactDraft(d, kv, order, n) ==
    Bind(open_file(d, COMPACT_FILE_NAME), LAMBDA d1 :
        CopyEntries(d[LOG_FILE_NAME], order, n, d1[COMPACT_FILE_NAME], WriterNew, kv.index))

\* KvStore::compact, visiting the index in the given order: [disk, kv].
compact(d, kv, order) ==
    Bind(CompactDraft(d, kv, order, Len(order)), LAMBDA c :
    Bind(PutFile(d, COMPACT_FILE_NAME, Flush(c.file, c.writer).file), LAMBDA d1 :
    Bind(RemoveFile(d1, LOG_FILE_NAME), LAMBDA d2 :
    Bind(Rename(d2, COMPACT_FILE_NAME, LOG_FILE_NAME), LAMBDA d3 :
    Bind(get_log_file(d3), LAMBDA d4 :
        [disk |-> d4,
         kv |-> KvStore(c.index, ReaderSeekStart(ReaderNew, 0),
                        WriterSeekEnd(WriterNew, d4[LOG_FILE_NAME]), 0)])))))

\* The directory a crash leaves when compact stops after step p: the compact
\* file opened and p entries copied (p <= n), the old log removed (n + 1),
\* the compact file renamed (n + 2).
CompactCrash(d, kv, order, p) ==
    Bind(PutFile(d, COMPACT_FILE_NAME, CompactDraft(d, kv, order, Min(p, Len(order))).file),
         LAMBDA d1 :
            IF p <= Len(order) THEN d1
            ELSE IF p = Len(order) + 1 THEN RemoveFile(d1, LOG_FILE_NAME)
            ELSE Rename(RemoveFile(d1, LOG_FILE_NAME), COMPACT_FILE_NAME, LOG_FILE_NAME))

\* A test that already compacts at the threshold.
NeedsCompaction_AtThreshold(stale) == stale >= THRESHOLD

\* The engine and directory compact leaves when a step of it returns an I/O
\* error through `?` after p entries were copied (p < n: the next copy
\* failed; p = n: remove_file failed): the p entries are relocated, reader,
\* writer and stale_size are not reset, kvs.log is still the old log.
CompactFails(d, kv, order, p) ==
    Bind(CompactDraft(d, kv, order, p), LAMBDA c :
        [disk |-> PutFile(d, COMPACT_FILE_NAME, c.file),
         kv |-> KvStore(c.index,
                        IF p = 0 THEN kv.reader
                        ELSE ReaderRead(ReaderSeekStart(kv.reader, kv.index[order[p]].pos),
                                        Len(ReadAt(d[LOG_FILE_NAME], kv.index[order[p]].pos,
                                                   kv.index[order[p]].len))),
                        kv.writer, kv.stale_size)])

\* Whether set / remove go on to compact.
NeedsCompaction(stale) == stale > THRESHOLD

\* A set that writes its record but keeps the index entry a key already has.
SetWrite_KeepsOldEntry(d, kv, key, value) ==
    Bind(Serialize(SetCmd(key, value)), LAMBDA bytes :
    Bind(kv.writer.pos, LAMBDA pos :
    Bind(Flush(d[LOG_FILE_NAME], WriterWrite(kv.writer, bytes)), LAMBDA f :
    Bind(f.writer.pos - pos, LAMBDA len :
        [disk |-> PutFile(d, LOG_FILE_NAME, f.file),
         kv |-> KvStore(IF key \in DOMAIN kv.index THEN kv.index
                        ELSE IndexInsert(kv.index, key, CommandPos(pos, len)),
                        kv.reader, f.writer, kv.stale_size + OldLen(kv.index, key))]))))

\* KvStore::set up to the threshold test: the record is written and flushed
\* at the writer, the index entry replaced, the old entry's len accounted.
SetWrite(d, kv, key, value) ==
    Bind(Serialize(SetCmd(key, value)), LAMBDA bytes :
    Bind(kv.writer.pos, LAMBDA pos :
    Bind(Flush(d[LOG_FILE_NAME], WriterWrite(kv.writer, bytes)), LAMBDA f :
    Bind(f.writer.pos - pos, LAMBDA len :
        [disk |-> PutFile(d, LOG_FILE_NAME, f.file),
         kv |-> KvStore(IndexInsert(kv.index, key, CommandPos(pos, len)), kv.reader, f.writer,
                        kv.stale_size + OldLen(kv.index, key))]))))

\* A remove that skips the test for the key.
RemoveFinds_Always(kv, key) == TRUE

\* Whether remove passes its first test.
RemoveFinds(kv, key) == key \in DOMAIN kv.index

\* KvStore::remove, for a key in the index, up to the threshold test.
RemoveWrite(d, kv, key) ==
    Bind(Serialize(RmCmd(key)), LAMBDA bytes :
    Bind(Flush(d[LOG_FILE_NAME], WriterWrite(kv.writer, bytes)), LAMBDA f :
        [disk |-> PutFile(d, LOG_FILE_NAME, f.file),
         kv |-> KvStore(IndexRemove(kv.index, key), kv.reader, f.writer,
                        kv.stale_size + OldLen(kv.index, key))]))

\* What get returns for every key.
View(d, kv) == [k \in Keys |-> get(d, kv, k).res]

\* ------------------------------------------------------------------ state

VARIABLES
    disk,       \* the directory: file name -> bytes, for the files that exist
    up,         \* whether a process holds an engine on the directory
    kv,         \* the engine's fields (NoStore while there is none)
    latest,     \* history: per key, the last written set's value, None after a remove
    written,    \* history: per key, the last written set's value, removed or not
    fresh,      \* history: the engine was opened on the empty directory
    compacted_since_open, \* history: the engine has run a compaction
    ops,        \* history: number of log-writing calls so far
    crashes,    \* history: number of crashes and failed compactions so far
    last        \* history: the call that led here, its result, what compaction saw

vars == <<disk, up, kv, latest, written, fresh, compacted_since_open, ops, crashes, last>>

AllNone == [k \in Keys |-> None]

NoSnap == [disk |-> NoFiles, view |-> AllNone, keys |-> {}, index |-> EmptyIndex]

\* The directory, get's answers and the live keys as compaction starts.
Snap(d, s) == [disk |-> d, view |-> View(d, s), keys |-> DOMAIN s.index, index |-> s.index]

Event(op, key, res) ==
    [op |-> op, key |-> key, res |-> res, compacted |-> FALSE, point |-> "none", pre |-> NoSnap]

CompactEvent(op, key, res, point, d, s) ==
    [op |-> op, key |-> key, res |-> res, compacted |-> point = "done", point |-> point,
     pre |-> Snap(d, s)]

\* The step of compact a crash follows.
PointName(p, n) == IF p <= n THEN "copy" ELSE IF p = n + 1 THEN "removed" ELSE "renamed"

Init ==
    /\ disk = NoFiles
    /\ up = FALSE
    /\ kv = NoStore
    /\ latest = AllNone
    /\ written = AllNone
    /\ fresh = FALSE
    /\ compacted_since_open = FALSE
    /\ ops = 0
    /\ crashes = 0
    /\ last = Event("init", <<>>, Ok)

\* A process starts: KvStore::open.  On an error no engine is returned.
Open ==
    /\ ~up
    /\ \E r \in {open(disk)} :
        /\ disk' = r.disk
        /\ up' = r.ok
        /\ kv' = r.kv
        /\ fresh' = (r.ok /\ DOMAIN disk = {})
        /\ compacted_since_open' = FALSE
        /\ last' = Event("open", <<>>, IF r.ok THEN Ok ELSE Err)
    /\ UNCHANGED <<latest, written, ops, crashes>>

\* KvStore::set, with the compaction it runs when stale_size passes THRESHOLD.
Set(key, value) ==
    /\ up
    /\ ops < MaxOps
    /\ \E s \in {SetWrite(disk, kv, key, value)} :
        IF NeedsCompaction(s.kv.stale_size)
        THEN \E order \in Orders(DOMAIN s.kv.index) :
                \E c \in {compact(s.disk, s.kv, order)} :
                /\ disk' = c.disk
                /\ kv' = c.kv
                /\ compacted_since_open' = TRUE
                /\ last' = CompactEvent("set", key, Ok, "done", s.disk, s.kv)
        ELSE /\ disk' = s.disk
             /\ kv' = s.kv
             /\ last' = Event("set", key, Ok)
             /\ UNCHANGED compacted_since_open
    /\ latest' = [latest EXCEPT ![key] = Some(value)]
    /\ written' = [written EXCEPT ![key] = Some(value)]
    /\ ops' = ops + 1
    /\ UNCHANGED <<up, fresh, crashes>>

\* KvStore::get
Get(key) ==
    /\ up
    /\ \E g \in {get(disk, kv, key)} :
        /\ kv' = [kv EXCEPT !.reader = g.reader]
        /\ last' = Event("get", key, g.res)
    /\ UNCHANGED <<disk, up, latest, written, fresh, compacted_since_open, ops, crashes>>

\* KvStore::remove, with the compaction it runs when stale_size passes THRESHOLD.
Remove(key) ==
    /\ up
    /\ IF ~RemoveFinds(kv, key)
       THEN /\ last' = Event("remove", key, KeyNotFound)
            /\ UNCHANGED <<disk, kv, latest, compacted_since_open, ops>>
       ELSE /\ ops < MaxOps
            /\ \E s \in {RemoveWrite(disk, kv, key)} :
                IF NeedsCompaction(s.kv.stale_size)
                THEN \E order \in Orders(DOMAIN s.kv.index) :
                        \E c \in {compact(s.disk, s.kv, order)} :
                        /\ disk' = c.disk
                        /\ kv' = c.kv
                        /\ compacted_since_open' = TRUE
                        /\ last' = CompactEvent("remove", key, Ok, "done", s.disk, s.kv)
                ELSE /\ disk' = s.disk
                     /\ kv' = s.kv
                     /\ last' = Event("remove", key, Ok)
                     /\ UNCHANGED compacted_since_open
            /\ latest' = [latest EXCEPT ![key] = None]
            /\ ops' = ops + 1
    /\ UNCHANGED <<up, written, fresh, crashes>>

\* The process ends between two calls: the engine is dropped, the files stay.
Close ==
    /\ up
    /\ up' = FALSE
    /\ kv' = NoStore
    /\ fresh' = FALSE
    /\ compacted_since_open' = FALSE
    /\ last' = CompactEvent("close", <<>>, Ok, "none", disk, kv)
    /\ UNCHANGED <<disk, latest, written, ops, crashes>>

\* The process is killed inside the compaction a set runs, after step p.
SetCrash(key, value) ==
    /\ up
    /\ ops < MaxOps
    /\ crashes < MaxCrashes
    /\ crashes' = crashes + 1
    /\ \E s \in {SetWrite(disk, kv, key, value)} :
        /\ NeedsCompaction(s.kv.stale_size)
        /\ \E order \in Orders(DOMAIN s.kv.index) : \E p \in 0..(Len(order) + 2) :
            /\ disk' = CompactCrash(s.disk, s.kv, order, p)
            /\ last' = CompactEvent("crash", key, Err, PointName(p, Len(order)), s.disk, s.kv)
    /\ up' = FALSE
    /\ kv' = NoStore
    /\ fresh' = FALSE
    /\ compacted_since_open' = FALSE
    /\ latest' = [latest EXCEPT ![key] = Some(value)]
    /\ written' = [written EXCEPT ![key] = Some(value)]
    /\ ops' = ops + 1

\* The process is killed inside the compaction a remove runs, after step p.
RemoveCrash(key) ==
    /\ up
    /\ ops < MaxOps
    /\ crashes < MaxCrashes
    /\ crashes' = crashes + 1
    /\ RemoveFinds(kv, key)
    /\ \E s \in {RemoveWrite(disk, kv, key)} :
        /\ NeedsCompaction(s.kv.stale_size)
        /\ \E order \in Orders(DOMAIN s.kv.index) : \E p \in 0..(Len(order) + 2) :
            /\ disk' = CompactCrash(s.disk, s.kv, order, p)
            /\ last' = CompactEvent("crash", key, Err, PointName(p, Len(order)), s.disk, s.kv)
    /\ up' = FALSE
    /\ kv' = NoStore
    /\ fresh' = FALSE
    /\ compacted_since_open' = FALSE
    /\ latest' = [latest EXCEPT ![key] = None]
    /\ ops' = ops + 1
    /\ UNCHANGED written

Next ==
    \/ Open
    \/ \E key \in Keys, value \in Values : Set(key, value)
    \/ \E key \in Keys : Get(key)
    \/ \E key \in Keys : Remove(key)
    \/ Close
    \/ \E key \in Keys, value \in Values : SetCrash(key, value)
    \/ \E key \in Keys : RemoveCrash(key)

Spec == Init /\ [][Next]_vars

\* ------------------------------------------- compaction that returns Err

\* set whose compaction fails with an I/O error after p copied entries.
SetFails(key, value) ==
    /\ up
    /\ ops < MaxOps
    /\ crashes < MaxCrashes
    /\ crashes' = crashes + 1
    /\ \E s \in {SetWrite(disk, kv, key, value)} :
        /\ NeedsCompaction(s.kv.stale_size)
        /\ \E order \in Orders(DOMAIN s.kv.index) : \E p \in 0..Len(order) :
            \E c \in {CompactFails(s.disk, s.kv, order, p)} :
                /\ disk' = c.disk
                /\ kv' = c.kv
                /\ last' = CompactEvent("fail", key, Err, "copy", s.disk, s.kv)
    /\ latest' = [latest EXCEPT ![key] = Some(value)]
    /\ written' = [written EXCEPT ![key] = Some(value)]
    /\ ops' = ops + 1
    /\ UNCHANGED <<up, fresh, compacted_since_open>>

\* remove whose compaction fails with an I/O error after p copied entries.
RemoveFails(key) ==
    /\ up
    /\ ops < MaxOps
    /\ crashes < MaxCrashes
    /\ crashes' = crashes + 1
    /\ RemoveFinds(kv, key)
    /\ \E s \in {RemoveWrite(disk, kv, key)} :
        /\ NeedsCompaction(s.kv.stale_size)
        /\ \E order \in Orders(DOMAIN s.kv.index) : \E p \in 0..Len(order) :
            \E c \in {CompactFails(s.disk, s.kv, order, p)} :
                /\ disk' = c.disk
                /\ kv' = c.kv
                /\ last' = CompactEvent("fail", key, Err, "copy", s.disk, s.kv)
    /\ latest' = [latest EXCEPT ![key] = None]
    /\ ops' = ops + 1
    /\ UNCHANGED <<up, written, fresh, compacted_since_open>>

NextFails ==
    \/ Open
    \/ \E key \in Keys, value \in Values : Set(key, value)
    \/ \E key \in Keys : Get(key)
    \/ \E key \in Keys : Remove(key)
    \/ Close
    \/ \E key \in Keys, value \in Values : SetFails(key, value)
    \/ \E key \in Keys : RemoveFails(key)

SpecFails == Init /\ [][NextFails]_vars

\* ------------------------------------------------- open on a damaged log

\* Complete records a log may start with.
WholeRecords ==
    {Serialize(SetCmd(k, <<"1">>)) : k \in Keys} \cup {Serialize(RmCmd(k)) : k \in Keys}

\* The concatenations of at most n complete records.
RECURSIVE WholeLogs(_)
WholeLogs(n) ==
    IF n = 0 THEN {<<>>}
    ELSE WholeLogs(n - 1) \cup {l \o r : l \in WholeLogs(n - 1), r \in WholeRecords}

\* A record cut short: a proper, non-empty prefix of a complete record.
TornTails == UNION {{SubSeq(r, 1, n) : n \in 1..(Len(r) - 1)} : r \in WholeRecords}

\* Trailing bytes that are no record: a stray brace, a bare word, a Set
\* without its value, an unknown variant.
MalformedTails ==
    {<<"}">>, <<"x">>, <<"7">>,
     LitSet \o JsonString(<<"a">>) \o LitClose,
     <<"{", Quote, "P", "u", "t", Quote, ":", "{", Quote, "k", "e", "y", Quote, ":">>
        \o JsonString(<<"a">>) \o LitClose}

\* Logs that are complete records followed by a torn or malformed record.
DamagedLogs == {l \o t : l \in WholeLogs(MaxRecords), t \in TornTails \cup MalformedTails}

\* A directory whose kvs.log is damaged, no process running.
InitDamaged ==
    /\ disk \in {PutFile(NoFiles, LOG_FILE_NAME, b) : b \in DamagedLogs}
    /\ up = FALSE
    /\ kv = NoStore
    /\ latest = AllNone
    /\ written = AllNone
    /\ fresh = FALSE
    /\ compacted_since_open = FALSE
    /\ ops = 0
    /\ crashes = 0
    /\ last = Event("init", <<>>, Ok)

NextDamaged == Open

SpecDamaged == InitDamaged /\ [][NextDamaged]_vars

\* ------------------------------------- get on entries over foreign records

\* Records of all three variants.
AnyRecords ==
    WholeRecords \cup {Serialize(GetCmd(k)) : k \in Keys}

\* Indexes whose entries each cover the first or the second of two records of
\* lengths n1 and n2.
IndexesOver(n1, n2) ==
    UNION {[S -> {CommandPos(0, n1), CommandPos(n1, n2)}] : S \in SUBSET Keys}

\* An engine over a two-record log whose entries cover whole records that
\* need not be the Set records of their keys: the bytes under an entry were
\* written by something other than the set that made the entry.
InitForeign ==
    /\ \E r1 \in AnyRecords, r2 \in AnyRecords :
        /\ disk = PutFile(NoFiles, LOG_FILE_NAME, r1 \o r2)
        /\ \E idx \in IndexesOver(Len(r1), Len(r2)) :
            kv = KvStore(idx, ReaderSeekStart(ReaderNew, 0),
                         WriterSeekEnd(WriterNew, r1 \o r2), 0)
    /\ up = TRUE
    /\ latest = AllNone
    /\ written = AllNone
    /\ fresh = FALSE
    /\ compacted_since_open = FALSE
    /\ ops = 0
    /\ crashes = 0
    /\ last = Event("init", <<>>, Ok)

NextForeign == \E key \in Keys : Get(key)

SpecForeign == InitForeign /\ [][NextForeign]_vars

\* ----------------------------------------------------- notions of the claims

Log == disk[LOG_FILE_NAME]

\* The records of a log, in file order; <<>> with ok FALSE where one does not parse.
RECURSIVE Records(_, _, _)
Records(b, pos, acc) ==
    IF SkipWs(b, pos) >= Len(b) THEN [ok |-> TRUE, cmds |-> acc]
    ELSE Bind(ParseCommandAt(b, SkipWs(b, pos)), LAMBDA r :
        IF r.ok THEN Records(b, r.end, Append(acc, r.cmd)) ELSE [ok |-> FALSE, cmds |-> <<>>])

\* Whether the last record of cmds that mentions key k is a Set.
LastMentionIsSet(cmds, k) ==
    \E i \in 1..Len(cmds) :
        /\ cmds[i].key = k
        /\ cmds[i].type = "Set"
        /\ \A j \in (i + 1)..Len(cmds) : cmds[j].key # k

RECURSIVE SumLen(_, _)
SumLen(index, keys) ==
    IF keys = {} THEN 0
    ELSE Bind(CHOOSE k \in keys : TRUE, LAMBDA k : index[k].len + SumLen(index, keys \ {k}))

\* The bytes of the log no index entry covers.
DeadBytes(b, index) == Len(b) - SumLen(index, DOMAIN index)

\* The entries are disjoint ranges that together are exactly [0, n).
Tiles(index, n) ==
    /\ \A k \in DOMAIN index : index[k].len > 0 /\ index[k].pos + index[k].len <= n
    /\ \A k1, k2 \in DOMAIN index :
        k1 # k2 => \/ index[k1].pos + index[k1].len <= index[k2].pos
                   \/ index[k2].pos + index[k2].len <= index[k1].pos
    /\ SumLen(index, DOMAIN index) = n

\* The entry of k is the range of one serialized Set record of k, in the file.
EntryIsSetOf(b, index, k) ==
    /\ index[k].pos + index[k].len <= Len(b)
    /\ \E v \in Values : ReadAt(b, index[k].pos, index[k].len) = Serialize(SetCmd(k, v))

\* The value of the Set record the entry of k covers.
EntryValue(b, index, k) ==
    CHOOSE v \in Values : ReadAt(b, index[k].pos, index[k].len) = Serialize(SetCmd(k, v))

\* ------------------------------------------------------------------ claims

\* C1: on an engine opened on the empty directory, between calls, get(K)
\* returns the value of the most recent set of K not followed by a successful
\* remove of K, and "not present" for every other key; a get call returns it.
C1_GetReturnsLatest ==
    (up /\ fresh) =>
        /\ \A k \in Keys : get(disk, kv, k).res = latest[k]
        /\ last.op = "get" => last.res = latest[last.key]

\* C1 witness: a get on the first engine returned a value after a compaction
\* (more calls than keys and nothing stale) while another key had been removed.
C1_Witness ==
    /\ up /\ fresh /\ last.op = "get" /\ last.res.tag = "Some"
    /\ ops > Cardinality(Keys) /\ kv.stale_size = 0
    /\ \E k \in Keys : latest[k] = None /\ k \notin DOMAIN kv.index

\* C2: an engine opened after the previous one ended between two calls
\* answers every get as the previous one did.
C2_ReopenSameView ==
    [][(last.op = "close" /\ last'.op = "open" /\ up') => View(disk', kv') = last.pre.view]_vars

\* C3: remove of a key that is not in the index returns KeyNotFound and
\* changes neither the files nor the index, the writer or stale_size, and
\* runs no compaction.
C3_RemoveAbsentChangesNothing ==
    [][(up /\ last'.op = "remove" /\ last'.key \notin DOMAIN kv.index) =>
            /\ last'.res = KeyNotFound
            /\ ~last'.compacted
            /\ disk' = disk
            /\ kv' = kv]_vars

\* C3 witness: a remove returned KeyNotFound on an engine that holds another key.
C3_Witness ==
    /\ up /\ last.op = "remove" /\ last.res = KeyNotFound
    /\ DOMAIN kv.index # {} /\ kv.stale_size > 0

\* C4: after a crash at a step of compaction before the rename is done,
\* kvs.log exists with the bytes it had as compaction started, and open
\* replays it to the answers get gave as compaction started.
C4_CrashBeforeRenameKeepsLog ==
    (last.op = "crash" /\ last.point \in {"copy", "removed"}) =>
        /\ Exists(disk, LOG_FILE_NAME)
        /\ disk[LOG_FILE_NAME] = last.pre.disk[LOG_FILE_NAME]
        /\ open(disk).ok
        /\ View(open(disk).disk, open(disk).kv) = last.pre.view

\* C5: open on a directory that holds kvs.log and kvs.compact.log deletes
\* kvs.compact.log and leaves kvs.log as it is.
C5_OpenDeletesOrphan ==
    [][(~up /\ last'.op = "open" /\ Exists(disk, LOG_FILE_NAME)
            /\ Exists(disk, COMPACT_FILE_NAME)) =>
            /\ ~Exists(disk', COMPACT_FILE_NAME)
            /\ disk'[LOG_FILE_NAME] = disk[LOG_FILE_NAME]]_vars

\* C6: after a compaction, whatever the directory held, the index entries
\* tile kvs.log exactly, each is a Set record of its key, the keys are those
\* of before, kvs.compact.log is gone and stale_size is 0.
C6_CompactedLogIsLiveRecords ==
    last.compacted =>
        /\ Tiles(kv.index, Len(Log))
        /\ \A k \in DOMAIN kv.index : EntryIsSetOf(Log, kv.index, k)
        /\ DOMAIN kv.index = last.pre.keys
        /\ ~Exists(disk, COMPACT_FILE_NAME)
        /\ kv.stale_size = 0

\* C7: between calls every index entry is, within kvs.log, the range of one
\* serialized Set record of its key, whose value is that of the latest set.
C7_IndexEntriesValid ==
    up => \A k \in DOMAIN kv.index :
            /\ EntryIsSetOf(Log, kv.index, k)
            /\ Some(EntryValue(Log, kv.index, k)) = written[k]

\* C8: between calls a key is in the index exactly when the log has a record
\* that mentions it and the last such record is a Set.
C8_IndexedIffLastRecordIsSet ==
    up => /\ Records(Log, 0, <<>>).ok
          /\ \A k \in Keys :
                k \in DOMAIN kv.index <=> LastMentionIsSet(Records(Log, 0, <<>>).cmds, k)

\* C9: between calls the writer's position, and the offset its handle writes
\* at, are the length of kvs.log.
C9_WriterAtEndOfLog ==
    up => /\ Exists(disk, LOG_FILE_NAME)
          /\ kv.writer.pos = Len(Log)
          /\ kv.writer.cursor = kv.writer.pos

\* C9 witness: a compaction has reopened the writer on a log that holds records.
C9_Witness == up /\ last.compacted /\ Len(Log) > 0 /\ kv.writer.pos = Len(Log)

\* C10: between calls stale_size is at least the number of bytes of kvs.log
\* that no index entry covers.
C10_StaleBoundsDeadBytes ==
    up => kv.stale_size >= 0 /\ kv.stale_size >= DeadBytes(Log, kv.index)

\* C11: on an engine that has run a compaction, between calls, kvs.log is at
\* most the total length of the index entries plus THRESHOLD.
C11_LogSizeBound ==
    (up /\ compacted_since_open) =>
        Len(Log) <= SumLen(kv.index, DOMAIN kv.index) + THRESHOLD

\* The records of a log, as a set.
RecordSet(b) == {Records(b, 0, <<>>).cmds[i] : i \in 1..Len(Records(b, 0, <<>>).cmds)}

\* C12: from every state between calls, a compaction followed by a second
\* compaction leaves what the first one left: the same answer of get for
\* every key, the same log length and the same records in the log.
C12_CompactionIdempotent ==
    up => \A o1 \in Orders(DOMAIN kv.index) : \A c1 \in {compact(disk, kv, o1)} :
            \A o2 \in Orders(DOMAIN c1.kv.index) : \A c2 \in {compact(c1.disk, c1.kv, o2)} :
                /\ View(c2.disk, c2.kv) = View(c1.disk, c1.kv)
                /\ Len(c2.disk[LOG_FILE_NAME]) = Len(c1.disk[LOG_FILE_NAME])
                /\ Records(c2.disk[LOG_FILE_NAME], 0, <<>>).ok
                /\ Records(c1.disk[LOG_FILE_NAME], 0, <<>>).ok
                /\ RecordSet(c2.disk[LOG_FILE_NAME]) = RecordSet(c1.disk[LOG_FILE_NAME])

\* C13: open on a log that is complete records followed by a torn or
\* malformed record returns an error and no engine.
C13_OpenRejectsDamagedTail ==
    (last.op = "open" /\ Log \in DamagedLogs) =>
        /\ last.res = Err
        /\ ~up
        /\ kv = NoStore

\* C13 witness: open failed on a log that starts with a complete Set record
\* and a complete Rm record.
C13_Witness ==
    /\ last.op = "open" /\ last.res = Err /\ Log \in DamagedLogs
    /\ ParseCommandAt(Log, 0).ok
    /\ ParseCommandAt(Log, 0).cmd.type = "Set"
    /\ ParseCommandAt(Log, ParseCommandAt(Log, 0).end).ok

\* The entry of k covers bytes that decode to one record that is not a Set.
EntryDecodesToNonSet(b, index, k) ==
    /\ FromReader(ReadAt(b, index[k].pos, index[k].len)).ok
    /\ FromReader(ReadAt(b, index[k].pos, index[k].len)).cmd.type # "Set"

C15_CompactsIffOverThreshold ==
    [][(up /\ last'.op \in {"set", "remove"} /\ last'.res = Ok) =>
            /\ last'.compacted <=> (kv.stale_size + OldLen(kv.index, last'.key) > THRESHOLD)
            /\ kv'.stale_size <= THRESHOLD]_vars

\* C15 witness: a set returned with stale_size at THRESHOLD and no compaction.
C15_Witness ==
    up /\ last.op = "set" /\ last.res = Ok /\ ~last.compacted /\ kv.stale_size = THRESHOLD

\* stale_size after the records cmds from the i-th on, when a Set adds the len
\* of the entry it replaces and an Rm of an indexed key adds the len of the
\* entry it removes and its own length; lens holds each key's entry len, 0 for
\* a key that has none.
RECURSIVE AccountedStale(_, _, _, _)
AccountedStale(cmds, i, lens, stale) ==
    IF i > Len(cmds) THEN stale
    ELSE Bind(cmds[i], LAMBDA c :
        IF c.type = "Set" THEN
            AccountedStale(cmds, i + 1, [lens EXCEPT ![c.key] = Len(Serialize(c))],
                           stale + lens[c.key])
        ELSE IF c.type = "Rm" /\ lens[c.key] > 0 THEN
            AccountedStale(cmds, i + 1, [lens EXCEPT ![c.key] = 0],
                           stale + lens[c.key] + Len(Serialize(c)))
        ELSE AccountedStale(cmds, i + 1, lens, stale))

\* C16: a remove of an indexed key that runs no compaction adds to stale_size
\* the removed entry's len and the length of the Rm record it writes, and
\* open, replaying a log, accounts every Rm of an indexed key the same way.
C16_RemoveCountsItsRecord ==
    [][/\ (up /\ last'.op = "remove" /\ last'.res = Ok /\ ~last'.compacted) =>
            kv'.stale_size = kv.stale_size + OldLen(kv.index, last'.key)
                                + Len(Serialize(RmCmd(last'.key)))
       /\ (last'.op = "open" /\ up') =>
            kv'.stale_size =
                AccountedStale(Records(disk'[LOG_FILE_NAME], 0, <<>>).cmds, 1,
                               [k \in Keys |-> 0], 0)]_vars

\* Every entry of index lies within the bytes b.
EntriesInFile(b, index) == \A k \in DOMAIN index : index[k].pos + index[k].len <= Len(b)

\* The file b holds, somewhere, the bytes the entry of k covers in log.
HoldsCopy(b, log, index, k) ==
    \E off \in 0..Len(b) :
        ReadAt(b, off, index[k].len) = ReadAt(log, index[k].pos, index[k].len)

\* C17: between calls the writer's buffer is empty and every index entry's
\* bytes are in kvs.log; they are in kvs.log as compaction starts to read
\* them; once compaction has deleted the old log, the compact file holds the
\* bytes of every live record.
C17_FlushedBeforeRead ==
    /\ up => (kv.writer.buf = <<>> /\ EntriesInFile(Log, kv.index))
    /\ last.point # "none" => EntriesInFile(last.pre.disk[LOG_FILE_NAME], last.pre.index)
    /\ last.point = "removed" =>
        /\ Exists(disk, COMPACT_FILE_NAME)
        /\ Len(disk[COMPACT_FILE_NAME]) >= SumLen(last.pre.index, last.pre.keys)
        /\ \A k \in last.pre.keys :
            HoldsCopy(disk[COMPACT_FILE_NAME], last.pre.disk[LOG_FILE_NAME], last.pre.index, k)

\* C17 witness: the process was killed right after compaction deleted the old
\* log, with two live records copied to the compact file.
C17_Witness ==
    /\ last.op = "crash" /\ last.point = "removed" /\ Cardinality(last.pre.keys) = 2
    /\ Len(disk[COMPACT_FILE_NAME]) >= SumLen(last.pre.index, last.pre.keys)

\* C18: after a compaction that returned an I/O error, every index entry is
\* the range of a Set record of its key in kvs.log, and get answers for
\* every key what it answered as the compaction started.
C18_FailedCompactionKeepsIndex ==
    (up /\ last.op = "fail") =>
        /\ \A k \in DOMAIN kv.index : EntryIsSetOf(Log, kv.index, k)
        /\ View(disk, kv) = last.pre.view

\* C19: after every successful set or remove, open replaying the log as it
\* is computes the stale_size the running engine holds (0 right after a
\* compaction).
C19_ReplayReproducesStale ==
    (up /\ last.op \in {"set", "remove"} /\ last.res = Ok) =>
        /\ open(disk).ok
        /\ open(disk).kv.stale_size = kv.stale_size

\* C20: get, for a key in the index or not, leaves the files, the index, the
\* writer and stale_size as they are, runs no compaction, and a second get of
\* the same key returns what the first returned.
C20_GetIsReadOnly ==
    [][(up /\ last'.op = "get") =>
            /\ disk' = disk
            /\ kv'.index = kv.index
            /\ kv'.writer = kv.writer
            /\ kv'.stale_size = kv.stale_size
            /\ ~last'.compacted
            /\ up'
            /\ get(disk', kv', last'.key).res = last'.res]_vars

\* C20 witness: a get returned a value and moved the reader, on an engine
\* that holds stale bytes and has no entry for another key.
C20_Witness ==
    /\ up /\ last.op = "get" /\ last.res.tag = "Some" /\ kv.reader.pos > 0
    /\ kv.stale_size > 0 /\ DOMAIN kv.index # Keys

====
